---- MODULE Spec2Model ----
(***************************************************************************)
(* Model of pkg/resources/k8sgpt.go: the five resource builders, Sync and  *)
(* doSync, run against a cluster API that stores one object per kind.      *)
(*                                                                         *)
(* A process is one call of Sync.  Its atomic steps are the cluster API    *)
(* calls it makes (Get, Create, Patch, Delete); the computation between    *)
(* two calls is part of the step of the call that precedes it.             *)
(* controllerutil.CreateOrPatch and retry.RetryOnConflict are library code *)
(* called by doSync; they are modelled by what they do (a Get followed by  *)
(* a Create or a merge Patch; at most DefaultRetrySteps attempts, repeated *)
(* on a conflict only).                                                    *)
(***************************************************************************)
EXTENDS Naturals, Sequences, FiniteSets, TLC

VARIABLES
  config,        \* the v1alpha1.K8sGPT handed to the builders and to Sync
  built,         \* results of the builders called on their own: kind -> <<object, error>>
  cluster,       \* the cluster API's store: kind -> Absent or the stored object
  secretExists,  \* whether the secret config.Spec.AI.Secret names exists in config.Namespace
  pc,            \* per Sync call: where it is
  mode,          \* per Sync call: SyncOp or DestroyOp (parameter i of Sync)
  objs,          \* per Sync call: the slice objs built at the top of Sync
  idx,           \* per Sync call: position of the range loop in objs
  obj,           \* per Sync call: doSync's obj (the desired object, or exist)
  mutateFn,      \* per Sync call: doSync's mutateFn, "nil" or "setSpec"
  patch,         \* per Sync call: the merge patch CreateOrPatch is about to send
  steps,         \* per Sync call: backoff.Steps left in RetryOnConflict
  result,        \* per Sync call: Running, or the error Sync returned ("nil" for none)
  lastErr,       \* per Sync call: the error its last cluster API call returned
  calls,         \* per Sync call: the kinds it has issued a cluster API call for
  verbs,         \* per Sync call: the verbs of the cluster API calls it has issued
  clean,         \* per Sync call: no API fault and no foreign write since it started
  external       \* number of writes by other clients of the cluster

vars == <<config, built, cluster, secretExists, pc, mode, objs, idx, obj, mutateFn,
          patch, steps, result, lastErr, calls, verbs, clean, external>>

(***************************************************************************)
(* Constants of the program.                                               *)
(***************************************************************************)
SyncOp == "SyncOp"
DestroyOp == "DestroyOp"
DeploymentName == "k8sgpt-deployment"
AzureOpenAI == "azureopenai"
ServicePort == 8080
ContainerPort == 8080
Replicas == 1
DefaultRetrySteps == 5

(***************************************************************************)
(* Bounds of the model.                                                    *)
(***************************************************************************)
MaxExternal == 1

Kinds == <<"Service", "ServiceAccount", "ClusterRole", "ClusterRoleBinding", "Deployment">>
KindSet == {Kinds[k] : k \in 1..Len(Kinds)}

Absent == [Kind |-> "absent"]
NoRef == [Name |-> "", Key |-> ""]
NoObject == [Kind |-> "none"]

\* Errors.  "nil" is the nil error.
ErrEngine == "Engine is supported only by azureopenai provider."
ErrSecret == "references secret does not exist, cannot create deployment"
ErrNotFound == "NotFound"
ErrAlreadyExists == "AlreadyExists"
ErrConflict == "Conflict"
ErrForbidden == "Forbidden"
ErrInvalid == "Invalid"

\* IsNotFound that recognises nothing.
IsNotFound_never(e) == FALSE

IsNotFound(e) == e = ErrNotFound
\* IsAlreadyExists that recognises nothing.
IsAlreadyExists_never(e) == FALSE

IsAlreadyExists(e) == e = ErrAlreadyExists
\* IsConflict that takes a permission error for a conflict too.
IsConflict_wide(e) == e \in {ErrConflict, ErrForbidden}

IsConflict(e) == e = ErrConflict

(***************************************************************************)
(* The builders.  An object is a record: Kind, ObjectMeta, Spec (Service   *)
(* and Deployment), Body (the remaining top-level fields: Rules, or        *)
(* Subjects and RoleRef) and Status.                                       *)
(***************************************************************************)
EnvValue(name, value) == [Name |-> name, Value |-> value, SecretName |-> "", Key |-> ""]
EnvSecret(name, secret, key) == [Name |-> name, Value |-> "", SecretName |-> secret, Key |-> key]

NoSpec == [None |-> TRUE]
NoBody == [None |-> TRUE]
NoStatus == "none"

GetService(c) ==
  <<[Kind |-> "Service",
     ObjectMeta |-> [Name |-> "k8sgpt", Namespace |-> c.Namespace,
                     OwnerReferences |-> <<[Kind |-> c.Kind, Name |-> c.Name, UID |-> c.UID,
                                            APIVersion |-> c.APIVersion,
                                            BlockOwnerDeletion |-> TRUE, Controller |-> TRUE]>>,
                     Labels |-> "none", ResourceVersion |-> FALSE],
     Spec |-> [Selector |-> [app |-> DeploymentName], Ports |-> <<ServicePort>>],
     Body |-> NoBody,
     Status |-> NoStatus],
    "nil">>

GetServiceAccount(c) ==
  <<[Kind |-> "ServiceAccount",
     ObjectMeta |-> [Name |-> "k8sgpt", Namespace |-> c.Namespace,
                     OwnerReferences |-> <<[Kind |-> c.Kind, Name |-> c.Name, UID |-> c.UID,
                                            APIVersion |-> c.APIVersion,
                                            BlockOwnerDeletion |-> TRUE, Controller |-> TRUE]>>,
                     Labels |-> "none", ResourceVersion |-> FALSE],
     Spec |-> NoSpec,
     Body |-> NoBody,
     Status |-> NoStatus],
    "nil">>

\* GetClusterRoleBinding with the owner named after the object instead of the owner.
GetClusterRoleBinding_selfOwned(c) ==
  <<[Kind |-> "ClusterRoleBinding",
     ObjectMeta |-> [Name |-> "k8sgpt", Namespace |-> "",
                     OwnerReferences |-> <<[Kind |-> c.Kind, Name |-> "k8sgpt", UID |-> c.UID,
                                            APIVersion |-> c.APIVersion,
                                            BlockOwnerDeletion |-> TRUE, Controller |-> TRUE]>>,
                     Labels |-> "none", ResourceVersion |-> FALSE],
     Spec |-> NoSpec,
     Body |-> [Subjects |-> <<[Kind |-> "ServiceAccount", Name |-> "k8sgpt",
                               Namespace |-> c.Namespace]>>,
               RoleRef |-> [Kind |-> "ClusterRole", Name |-> "k8sgpt",
                            APIGroup |-> "rbac.authorization.k8s.io"]],
     Status |-> NoStatus],
    "nil">>

GetClusterRoleBinding(c) ==
  <<[Kind |-> "ClusterRoleBinding",
     ObjectMeta |-> [Name |-> "k8sgpt", Namespace |-> "",
                     OwnerReferences |-> <<[Kind |-> c.Kind, Name |-> c.Name, UID |-> c.UID,
                                            APIVersion |-> c.APIVersion,
                                            BlockOwnerDeletion |-> TRUE, Controller |-> TRUE]>>,
                     Labels |-> "none", ResourceVersion |-> FALSE],
     Spec |-> NoSpec,
     Body |-> [Subjects |-> <<[Kind |-> "ServiceAccount", Name |-> "k8sgpt",
                               Namespace |-> c.Namespace]>>,
               RoleRef |-> [Kind |-> "ClusterRole", Name |-> "k8sgpt",
                            APIGroup |-> "rbac.authorization.k8s.io"]],
     Status |-> NoStatus],
    "nil">>

GetClusterRole(c) ==
  <<[Kind |-> "ClusterRole",
     ObjectMeta |-> [Name |-> "k8sgpt", Namespace |-> "",
                     OwnerReferences |-> <<[Kind |-> c.Kind, Name |-> c.Name, UID |-> c.UID,
                                            APIVersion |-> c.APIVersion,
                                            BlockOwnerDeletion |-> TRUE, Controller |-> TRUE]>>,
                     Labels |-> "none", ResourceVersion |-> FALSE],
     Spec |-> NoSpec,
     Body |-> [Rules |-> <<[APIGroups |-> <<"*">>, Resources |-> <<"*">>,
                            Verbs |-> <<"create", "list", "get", "watch", "delete">>],
                           [APIGroups |-> <<"apiextensions.k8s.io">>, Resources |-> <<"*">>,
                            Verbs |-> <<"*">>]>>],
     Status |-> NoStatus],
    "nil">>

\* Lines 217-234: the four environment variables every Deployment gets.
BaseEnv(c) ==
  <<EnvValue("K8SGPT_MODEL", c.Spec.AI.Model),
    EnvValue("K8SGPT_BACKEND", c.Spec.AI.Backend),
    EnvValue("XDG_CONFIG_HOME", "/k8sgpt-data/.config"),
    EnvValue("XDG_CACHE_HOME", "/k8sgpt-data/.cache")>>

\* Lines 268-283.
PasswordEnv(c) ==
  IF c.Spec.AI.Secret # NoRef
  THEN <<EnvSecret("K8SGPT_PASSWORD", c.Spec.AI.Secret.Name, c.Spec.AI.Secret.Key)>>
  ELSE <<>>

\* RemoteCacheEnv with the two providers tested in the other order.
RemoteCacheEnv_s3First(c) ==
  IF ~c.Spec.RemoteCache.Set THEN <<>>
  ELSE IF c.Spec.RemoteCache.S3
       THEN <<EnvSecret("AWS_ACCESS_KEY_ID", c.Spec.RemoteCache.Credentials,
                        "aws_access_key_id"),
              EnvSecret("AWS_SECRET_ACCESS_KEY", c.Spec.RemoteCache.Credentials,
                        "aws_secret_access_key")>>
       ELSE IF c.Spec.RemoteCache.Azure
            THEN <<EnvSecret("AZURE_CLIENT_ID", c.Spec.RemoteCache.Credentials,
                             "azure_client_id"),
                   EnvSecret("AZURE_TENANT_ID", c.Spec.RemoteCache.Credentials,
                             "azure_tenant_id"),
                   EnvSecret("AZURE_CLIENT_SECRET", c.Spec.RemoteCache.Credentials,
                             "azure_client_secret")>>
            ELSE <<>>

\* Lines 284-311.  RemoteCache.Set, .Azure and .S3 are TRUE when the pointer is non-nil.
RemoteCacheEnv(c) ==
  IF ~c.Spec.RemoteCache.Set THEN <<>>
  ELSE IF c.Spec.RemoteCache.Azure
       THEN <<EnvSecret("AZURE_CLIENT_ID", c.Spec.RemoteCache.Credentials, "azure_client_id"),
              EnvSecret("AZURE_TENANT_ID", c.Spec.RemoteCache.Credentials, "azure_tenant_id"),
              EnvSecret("AZURE_CLIENT_SECRET", c.Spec.RemoteCache.Credentials,
                        "azure_client_secret")>>
       ELSE IF c.Spec.RemoteCache.S3
            THEN <<EnvSecret("AWS_ACCESS_KEY_ID", c.Spec.RemoteCache.Credentials,
                             "aws_access_key_id"),
                   EnvSecret("AWS_SECRET_ACCESS_KEY", c.Spec.RemoteCache.Credentials,
                             "aws_secret_access_key")>>
            ELSE <<>>

\* Lines 313-321.
BaseUrlEnv(c) ==
  IF c.Spec.AI.BaseUrl # "" THEN <<EnvValue("K8SGPT_BASEURL", c.Spec.AI.BaseUrl)>> ELSE <<>>

\* Lines 323-330: the first branch of the engine test.
EngineEnv(c) ==
  IF c.Spec.AI.Engine # "" /\ c.Spec.AI.Backend = AzureOpenAI
  THEN <<EnvValue("K8SGPT_ENGINE", c.Spec.AI.Engine)>>
  ELSE <<>>

\* The second branch testing the backend the wrong way round.
EngineRejected_swapped(c) == c.Spec.AI.Engine # "" /\ c.Spec.AI.Backend = AzureOpenAI

\* Lines 331-333: the second branch of the engine test.
EngineRejected(c) == c.Spec.AI.Engine # "" /\ c.Spec.AI.Backend # AzureOpenAI

\* &appsv1.Deployment{}: every field at its zero value.
EmptyDeployment ==
  [Kind |-> "Deployment",
   ObjectMeta |-> [Name |-> "", Namespace |-> "", OwnerReferences |-> <<>>,
                   Labels |-> "none", ResourceVersion |-> FALSE],
   Spec |-> [Replicas |-> 0, Selector |-> [nil |-> TRUE], Template |-> [zero |-> TRUE]],
   Body |-> NoBody,
   Status |-> NoStatus]

GetDeployment(c) ==
  IF EngineRejected(c) THEN <<EmptyDeployment, ErrEngine>>
  ELSE
  <<[Kind |-> "Deployment",
     ObjectMeta |-> [Name |-> DeploymentName, Namespace |-> c.Namespace,
                     OwnerReferences |-> <<[Kind |-> c.Kind, Name |-> c.Name, UID |-> c.UID,
                                            APIVersion |-> c.APIVersion,
                                            BlockOwnerDeletion |-> TRUE, Controller |-> TRUE]>>,
                     Labels |-> "none", ResourceVersion |-> FALSE],
     Spec |-> [Replicas |-> Replicas,
               Selector |-> [app |-> DeploymentName],
               Template |->
                 [Labels |-> [app |-> DeploymentName],
                  ServiceAccountName |-> "k8sgpt",
                  Containers |->
                    <<[Name |-> "k8sgpt",
                       ImagePullPolicy |-> "Always",
                       Image |-> <<c.Spec.Repository, ":", c.Spec.Version>>,
                       Args |-> <<"serve">>,
                       Env |-> BaseEnv(c) \o PasswordEnv(c) \o RemoteCacheEnv(c)
                                 \o BaseUrlEnv(c) \o EngineEnv(c),
                       Ports |-> <<ContainerPort>>,
                       Limits |-> [cpu |-> "1", memory |-> "512Mi"],
                       Requests |-> [cpu |-> "0.2", memory |-> "156Mi"],
                       VolumeMounts |-> <<[MountPath |-> "/k8sgpt-data",
                                           Name |-> "k8sgpt-vol"]>>]>>,
                  Volumes |-> <<[EmptyDir |-> TRUE, Name |-> "k8sgpt-vol"]>>]],
     Body |-> NoBody,
     Status |-> NoStatus],
    "nil">>

\* The builder of each kind, in the order Sync calls them.
Builder(kind, c) ==
  CASE kind = "Service" -> GetService(c)
    [] kind = "ServiceAccount" -> GetServiceAccount(c)
    [] kind = "ClusterRole" -> GetClusterRole(c)
    [] kind = "ClusterRoleBinding" -> GetClusterRoleBinding(c)
    [] kind = "Deployment" -> GetDeployment(c)

(***************************************************************************)
(* Configurations.                                                         *)
(***************************************************************************)
Identities ==
  {[Kind |-> "K8sGPT", Name |-> "k8sgpt-sample", UID |-> "uid-1",
    APIVersion |-> "core.k8sgpt.ai/v1alpha1"],
   [Kind |-> "K8sGPT", Name |-> "other", UID |-> "uid-2",
    APIVersion |-> "core.k8sgpt.ai/v1alpha2"]}

NoRemoteCache == [Set |-> FALSE, Credentials |-> "", Azure |-> FALSE, S3 |-> FALSE]
RemoteCaches ==
  {NoRemoteCache} \cup
  {[Set |-> TRUE, Credentials |-> "cache-creds", Azure |-> a, S3 |-> s] : a, s \in BOOLEAN}

SecretRefs == {NoRef, [Name |-> "k8sgpt-secret", Key |-> "openai-api-key"]}

Config(id, secret, backend, engine, baseUrl, rc) ==
  [Kind |-> id.Kind, Name |-> id.Name, UID |-> id.UID, APIVersion |-> id.APIVersion,
   Namespace |-> "k8sgpt-operator-system",
   Spec |-> [Repository |-> "ghcr.io/k8sgpt-ai/k8sgpt", Version |-> "v0.3.8",
             AI |-> [Model |-> "gpt-3.5-turbo", Backend |-> backend, Engine |-> engine,
                     BaseUrl |-> baseUrl, Secret |-> secret],
             RemoteCache |-> rc]]

\* Inputs of the builders.
BuildConfigs ==
  {Config(id, secret, backend, engine, baseUrl, rc) :
     id \in Identities, secret \in SecretRefs, backend \in {"openai", AzureOpenAI},
     engine \in {"", "gpt-deploy"}, baseUrl \in {"", "https://example.test/v1"},
     rc \in RemoteCaches}

OneIdentity == CHOOSE id \in Identities : id.UID = "uid-1"

\* Inputs of Sync: with and without a secret reference, with and without the engine
\* the Deployment builder rejects.
SyncConfigs ==
  {Config(OneIdentity, secret, "openai", engine, "", NoRemoteCache) :
     secret \in SecretRefs, engine \in {"", "gpt-deploy"}}

Procs == {"p1", "p2"}

Unbuilt == <<NoObject, "unbuilt">>

InitLocals ==
  /\ built = [k \in KindSet |-> Unbuilt]
  /\ pc = [p \in Procs |-> "idle"]
  /\ mode = [p \in Procs |-> SyncOp]
  /\ objs = [p \in Procs |-> <<>>]
  /\ idx = [p \in Procs |-> 1]
  /\ obj = [p \in Procs |-> NoObject]
  /\ mutateFn = [p \in Procs |-> "nil"]
  /\ patch = [p \in Procs |-> <<>>]
  /\ steps = [p \in Procs |-> 0]
  /\ result = [p \in Procs |-> "running"]
  /\ lastErr = [p \in Procs |-> "nil"]
  /\ calls = [p \in Procs |-> {}]
  /\ verbs = [p \in Procs |-> {}]
  /\ clean = [p \in Procs |-> TRUE]
  /\ external = 0

InitProcs ==
  /\ InitLocals
  /\ cluster = [k \in KindSet |-> Absent]

(***************************************************************************)
(* The builders called on their own.                                       *)
(***************************************************************************)
syncVars == <<cluster, secretExists, pc, mode, objs, idx, obj, mutateFn, patch, steps,
              result, lastErr, calls, verbs, clean, external>>

CallBuilder(kind) ==
  /\ built[kind] = Unbuilt
  /\ built' = [built EXCEPT ![kind] = Builder(kind, config)]
  /\ UNCHANGED <<config, syncVars>>

CallGetService == CallBuilder("Service")
CallGetServiceAccount == CallBuilder("ServiceAccount")
CallGetClusterRole == CallBuilder("ClusterRole")
CallGetClusterRoleBinding == CallBuilder("ClusterRoleBinding")
CallGetDeployment == CallBuilder("Deployment")

InitBuild ==
  /\ config \in BuildConfigs
  /\ secretExists = TRUE
  /\ InitProcs

NextBuild ==
  \/ CallGetService
  \/ CallGetServiceAccount
  \/ CallGetClusterRole
  \/ CallGetClusterRoleBinding
  \/ CallGetDeployment

SpecBuild == InitBuild /\ [][NextBuild]_vars

(***************************************************************************)
(* Sync and doSync.  A frame holds the locals of one Sync call; the        *)
(* operators below compute the frame after the code that runs between two  *)
(* cluster API calls.                                                      *)
(***************************************************************************)
Frame(p) ==
  [pc |-> pc[p], idx |-> idx[p], obj |-> obj[p], mutateFn |-> mutateFn[p],
   patch |-> patch[p], steps |-> steps[p], result |-> result[p]]

Goto(p, f) ==
  /\ pc' = [pc EXCEPT ![p] = f.pc]
  /\ idx' = [idx EXCEPT ![p] = f.idx]
  /\ obj' = [obj EXCEPT ![p] = f.obj]
  /\ mutateFn' = [mutateFn EXCEPT ![p] = f.mutateFn]
  /\ patch' = [patch EXCEPT ![p] = f.patch]
  /\ steps' = [steps EXCEPT ![p] = f.steps]
  /\ result' = [result EXCEPT ![p] = f.result]

\* The call verb kind is issued and returns e.
Called(p, verb, kind, e) ==
  /\ calls' = [calls EXCEPT ![p] = @ \cup {kind}]
  /\ verbs' = [verbs EXCEPT ![p] = @ \cup {verb}]
  /\ lastErr' = [lastErr EXCEPT ![p] = e]

\* Lines 340-375: the builders in order; the first error ends Sync.
RECURSIVE BuildFrom(_, _, _)
BuildFrom(k, c, acc) ==
  IF k > Len(Kinds) THEN [objs |-> acc, err |-> "nil"]
  ELSE LET r == Builder(Kinds[k], c)
       IN IF r[2] # "nil" THEN [objs |-> acc, err |-> r[2]]
          ELSE BuildFrom(k + 1, c, Append(acc, r[1]))

BuildObjs(c) == BuildFrom(1, c, <<>>)

\* The type switch with a case for every kind.
HasMergeFn_all(kind) == TRUE

\* Lines 416-441: the type switch of doSync.
HasMergeFn(kind) == kind \in {"Deployment", "Service"}

\* A mutateFn that assigns nothing.
Mutate_noop(o, fn, expect) == o

\* Lines 423-426, 435-438: mutateFn, and CreateOrPatch calling it only when non-nil.
Mutate(o, fn, expect) == IF fn = "setSpec" THEN [o EXCEPT !.Spec = expect.Spec] ELSE o

\* The locals of doSync outside a call of it.
Locals(f) == [f EXCEPT !.obj = NoObject, !.mutateFn = "nil", !.patch = <<>>, !.steps = 0]

\* Line 442: retry.RetryOnConflict(retry.DefaultRetry, ...) starts.
EnterRetry(f) == [f EXCEPT !.pc = "createOrPatch", !.steps = DefaultRetrySteps]

\* Line 393 into 414-441: doSync is entered with the desired object.
EnterDoSync(f, o) ==
  LET g == [Locals(f) EXCEPT !.obj = o[f.idx]]
  IN IF HasMergeFn(o[f.idx].Kind) THEN [g EXCEPT !.pc = "doSync"] ELSE EnterRetry(g)

\* Sync returns e.
Return(f, e) == [Locals(f) EXCEPT !.pc = "done", !.result = e]

\* Lines 378-392, 400-401, 411: the top of the range loop.
Iterate(f, o, c, m) ==
  IF f.idx > Len(o) THEN Return(f, "nil")
  ELSE IF m = SyncOp
       THEN IF c.Spec.AI.Secret # NoRef THEN [Locals(f) EXCEPT !.pc = "secret"]
            ELSE EnterDoSync(f, o)
       ELSE [Locals(f) EXCEPT !.pc = "delete"]

\* Sync going on to the next object whatever doSync returned.
AfterDoSync_swallowed(f, e, o, c) == Iterate([f EXCEPT !.idx = @ + 1], o, c, SyncOp)

\* Lines 393-399: Sync's handling of doSync's error.
AfterDoSync(f, e, o, c) ==
  IF e # "nil" /\ ~IsAlreadyExists(e) THEN Return(f, e)
  ELSE Iterate([f EXCEPT !.idx = @ + 1], o, c, SyncOp)

\* Lines 442-445: what RetryOnConflict does with the error of one attempt.
AfterAttempt(f, e, o, c) ==
  IF e = "nil" THEN AfterDoSync(f, "nil", o, c)
  ELSE IF IsConflict(e)
       THEN IF f.steps = 1 THEN AfterDoSync(f, e, o, c)
            ELSE [f EXCEPT !.pc = "createOrPatch", !.steps = @ - 1]
       ELSE AfterDoSync(f, e, o, c)

\* Lines 401-407: Sync's handling of Delete's error.
AfterDelete(f, e, o, c) ==
  IF e # "nil" /\ ~IsNotFound(e) THEN Return(f, e)
  ELSE Iterate([f EXCEPT !.idx = @ + 1], o, c, DestroyOp)

\* client.MergeFrom: the fields of Spec the mutation changed (metadata and the other
\* top-level fields are never changed by mutateFn).
SpecDiff(before, after) ==
  [fld \in {x \in DOMAIN after.Spec : before.Spec[x] # after.Spec[x]} |-> after.Spec[fld]]

\* The API server applying a merge patch to the stored object.
ApplyPatch(stored, pt) ==
  [stored EXCEPT !.Spec = [fld \in DOMAIN stored.Spec |->
                             IF fld \in DOMAIN pt THEN pt[fld] ELSE stored.Spec[fld]]]

\* The API server refusing a Create: of an object that carries a resource version
\* (a copy of a stored object), or of one that exists.
CreateError(o, stored) ==
  IF o.ObjectMeta.ResourceVersion THEN ErrInvalid
  ELSE IF stored # Absent THEN ErrAlreadyExists
  ELSE "nil"

\* The API server storing a created object.
Stored(o) == [o EXCEPT !.ObjectMeta.ResourceVersion = TRUE]

Kind(p) == objs[p][idx[p]].Kind

procFrame == <<pc, idx, obj, mutateFn, patch, steps, result>>

\* Sync is called: lines 337-378.
Begin(p, m) ==
  LET b == BuildObjs(config)
      f0 == [pc |-> "idle", idx |-> 1, obj |-> NoObject, mutateFn |-> "nil",
             patch |-> <<>>, steps |-> 0, result |-> "running"]
  IN /\ mode' = [mode EXCEPT ![p] = m]
     /\ objs' = [objs EXCEPT ![p] = b.objs]
     /\ calls' = [calls EXCEPT ![p] = {}]
     /\ verbs' = [verbs EXCEPT ![p] = {}]
     /\ lastErr' = [lastErr EXCEPT ![p] = "nil"]
     /\ clean' = [clean EXCEPT ![p] = TRUE]
     /\ Goto(p, IF b.err # "nil" THEN Return(f0, b.err) ELSE Iterate(f0, b.objs, config, m))
     /\ UNCHANGED <<config, built, cluster, secretExists, external>>

Start(p, m) ==
  /\ pc[p] \in {"idle", "done"}
  /\ Begin(p, m)

\* SecretGet with the error of the Get ignored.
SecretGet_ignored(p) ==
  /\ pc[p] = "secret"
  /\ Called(p, "Get", "Secret", IF secretExists THEN "nil" ELSE ErrNotFound)
  /\ Goto(p, EnterDoSync(Frame(p), objs[p]))
  /\ UNCHANGED <<config, built, cluster, secretExists, mode, objs, clean, external>>

\* Lines 386-391: the secret is fetched.
SecretGet(p) ==
  /\ pc[p] = "secret"
  /\ Called(p, "Get", "Secret", IF secretExists THEN "nil" ELSE ErrNotFound)
  /\ Goto(p, IF secretExists THEN EnterDoSync(Frame(p), objs[p])
             ELSE Return(Frame(p), ErrSecret))
  /\ UNCHANGED <<config, built, cluster, secretExists, mode, objs, clean, external>>

\* Lines 419-428, 431-440: doSync fetches the existing Deployment or Service.
ExistGet(p) ==
  /\ pc[p] = "doSync"
  /\ Called(p, "Get", Kind(p), IF cluster[Kind(p)] # Absent THEN "nil" ELSE ErrNotFound)
  /\ Goto(p, IF cluster[Kind(p)] # Absent
             THEN EnterRetry([Frame(p) EXCEPT !.obj = cluster[Kind(p)],
                                              !.mutateFn = "setSpec"])
             ELSE EnterRetry(Frame(p)))
  /\ UNCHANGED <<config, built, cluster, secretExists, mode, objs, clean, external>>

\* CreateOrPatch: Get into obj, mutate, and compare.
CreateOrPatchGet(p) ==
  /\ pc[p] = "createOrPatch"
  /\ Called(p, "Get", Kind(p), IF cluster[Kind(p)] # Absent THEN "nil" ELSE ErrNotFound)
  /\ LET expect == objs[p][idx[p]]
     IN IF cluster[Kind(p)] = Absent
        THEN Goto(p, [Frame(p) EXCEPT !.pc = "create",
                                      !.obj = Mutate(obj[p], mutateFn[p], expect)])
        ELSE LET before == cluster[Kind(p)]
                 after == Mutate(before, mutateFn[p], expect)
                 f == [Frame(p) EXCEPT !.obj = after]
             IN IF before # after
                THEN Goto(p, [f EXCEPT !.pc = "patch", !.patch = SpecDiff(before, after)])
                ELSE Goto(p, AfterAttempt(f, "nil", objs[p], config))
  /\ UNCHANGED <<config, built, cluster, secretExists, mode, objs, clean, external>>

\* CreateOrPatch: c.Create(ctx, obj).
Create(p) ==
  /\ pc[p] = "create"
  /\ LET e == CreateError(obj[p], cluster[Kind(p)])
     IN /\ Called(p, "Create", Kind(p), e)
        /\ IF e # "nil"
           THEN /\ Goto(p, AfterAttempt(Frame(p), e, objs[p], config))
                /\ UNCHANGED cluster
           ELSE /\ cluster' = [cluster EXCEPT ![Kind(p)] = Stored(obj[p])]
                /\ Goto(p, AfterAttempt([Frame(p) EXCEPT !.obj = Stored(obj[p])], "nil",
                                        objs[p], config))
  /\ UNCHANGED <<config, built, secretExists, mode, objs, clean, external>>

\* CreateOrPatch: c.Patch(ctx, obj, objPatch).
Patch(p) ==
  /\ pc[p] = "patch"
  /\ Called(p, "Patch", Kind(p), IF cluster[Kind(p)] = Absent THEN ErrNotFound ELSE "nil")
  /\ IF cluster[Kind(p)] = Absent
     THEN /\ Goto(p, AfterAttempt(Frame(p), ErrNotFound, objs[p], config))
          /\ UNCHANGED cluster
     ELSE LET new == ApplyPatch(cluster[Kind(p)], patch[p])
          IN /\ cluster' = [cluster EXCEPT ![Kind(p)] = new]
             /\ Goto(p, AfterAttempt([Frame(p) EXCEPT !.obj = new], "nil", objs[p], config))
  /\ UNCHANGED <<config, built, secretExists, mode, objs, clean, external>>

\* Line 401: c.Delete(ctx, obj).
Delete(p) ==
  /\ pc[p] = "delete"
  /\ Called(p, "Delete", Kind(p), IF cluster[Kind(p)] = Absent THEN ErrNotFound ELSE "nil")
  /\ cluster' = [cluster EXCEPT ![Kind(p)] = Absent]
  /\ Goto(p, AfterDelete(Frame(p), IF cluster[Kind(p)] = Absent THEN ErrNotFound ELSE "nil",
                         objs[p], config))
  /\ UNCHANGED <<config, built, secretExists, mode, objs, clean, external>>

(***************************************************************************)
(* Cluster API calls that fail for a reason of the API's own.              *)
(***************************************************************************)
Faults == {ErrConflict, ErrForbidden}

Faulted(p) == clean' = [clean EXCEPT ![p] = FALSE]

\* Line 388: any error of the secret's Get.
SecretGetError(p, e) ==
  /\ pc[p] = "secret"
  /\ Called(p, "Get", "Secret", e)
  /\ Faulted(p)
  /\ Goto(p, Return(Frame(p), ErrSecret))
  /\ UNCHANGED <<config, built, cluster, secretExists, mode, objs, external>>

\* Lines 420-421, 432-433: an error of doSync's Get other than not-found.
ExistGetError(p, e) ==
  /\ pc[p] = "doSync"
  /\ Called(p, "Get", Kind(p), e)
  /\ Faulted(p)
  /\ Goto(p, AfterDoSync(Frame(p), e, objs[p], config))
  /\ UNCHANGED <<config, built, cluster, secretExists, mode, objs, external>>

CallAt(p) ==
  CASE pc[p] = "createOrPatch" -> "Get"
    [] pc[p] = "create" -> "Create"
    [] pc[p] = "patch" -> "Patch"

\* Lines 443-444: an error of CreateOrPatch's Get, Create or Patch.
CreateOrPatchError(p, e) ==
  /\ pc[p] \in {"createOrPatch", "create", "patch"}
  /\ Called(p, CallAt(p), Kind(p), e)
  /\ Faulted(p)
  /\ Goto(p, AfterAttempt(Frame(p), e, objs[p], config))
  /\ UNCHANGED <<config, built, cluster, secretExists, mode, objs, external>>

\* Lines 402-406: an error of Delete other than not-found.
DeleteError(p, e) ==
  /\ pc[p] = "delete"
  /\ Called(p, "Delete", Kind(p), e)
  /\ Faulted(p)
  /\ Goto(p, AfterDelete(Frame(p), e, objs[p], config))
  /\ UNCHANGED <<config, built, cluster, secretExists, mode, objs, external>>

(***************************************************************************)
(* Other clients of the cluster.                                           *)
(***************************************************************************)
\* The object of a kind as another client writes it: its own labels and status, no
\* owner, and one field of the spec (or the body) of its own.
ForeignObject(kind, v, c) ==
  LET d == Builder(kind, c)[1]
      m == [d.ObjectMeta EXCEPT !.Labels = "foreign", !.OwnerReferences = <<>>,
                                !.ResourceVersion = TRUE]
      o == [d EXCEPT !.ObjectMeta = m, !.Status = "observed"]
  IN CASE kind = "Deployment" /\ v = 1 -> [o EXCEPT !.Spec.Replicas = 3]
       [] kind = "Deployment" /\ v = 2 -> [o EXCEPT !.Spec.Selector = [app |-> "foreign"]]
       [] kind = "Service" /\ v = 1 -> [o EXCEPT !.Spec.Ports = <<9090>>]
       [] kind = "Service" /\ v = 2 -> [o EXCEPT !.Spec.Selector = [app |-> "foreign"]]
       [] OTHER -> [o EXCEPT !.Body = [Foreign |-> TRUE]]

Variants(kind) == IF HasMergeFn(kind) THEN {1, 2} ELSE {1}

Disturbed == clean' = [p \in Procs |-> FALSE]

ExternalWrite(kind, v) ==
  /\ external < MaxExternal
  /\ external' = external + 1
  /\ cluster' = [cluster EXCEPT ![kind] = ForeignObject(kind, v, config)]
  /\ Disturbed
  /\ UNCHANGED <<config, built, secretExists, procFrame, mode, objs, lastErr, calls, verbs>>

ExternalDelete(kind) ==
  /\ external < MaxExternal
  /\ cluster[kind] # Absent
  /\ external' = external + 1
  /\ cluster' = [cluster EXCEPT ![kind] = Absent]
  /\ Disturbed
  /\ UNCHANGED <<config, built, secretExists, procFrame, mode, objs, lastErr, calls, verbs>>

SecretChange ==
  /\ config.Spec.AI.Secret # NoRef
  /\ external < MaxExternal
  /\ external' = external + 1
  /\ secretExists' = ~secretExists
  /\ Disturbed
  /\ UNCHANGED <<config, built, cluster, procFrame, mode, objs, lastErr, calls, verbs>>

\* The store is empty, or holds a Deployment another client wrote.
Init ==
  /\ config \in SyncConfigs
  /\ secretExists \in (IF config.Spec.AI.Secret # NoRef THEN BOOLEAN ELSE {FALSE})
  /\ InitLocals
  /\ \E S \in {{}, {"Deployment"}} :
       cluster = [k \in KindSet |-> IF k \in S THEN ForeignObject(k, 1, config) ELSE Absent]

Next ==
  \/ \E m \in {SyncOp, DestroyOp} : Start("p1", m)
  \/ SecretGet("p1")
  \/ ExistGet("p1")
  \/ CreateOrPatchGet("p1")
  \/ Create("p1")
  \/ Patch("p1")
  \/ Delete("p1")
  \/ SecretGetError("p1", ErrForbidden)
  \/ ExistGetError("p1", ErrForbidden)
  \/ \E e \in Faults : CreateOrPatchError("p1", e)
  \/ DeleteError("p1", ErrForbidden)
  \/ \E k \in KindSet : \E v \in Variants(k) : ExternalWrite(k, v)
  \/ \E k \in KindSet : ExternalDelete(k)
  \/ SecretChange

Spec == Init /\ [][Next]_vars

\* A step of the Sync call p.
ProcStep(p) ==
  \/ \E m \in {SyncOp, DestroyOp} : Start(p, m)
  \/ SecretGet(p)
  \/ ExistGet(p)
  \/ CreateOrPatchGet(p)
  \/ Create(p)
  \/ Patch(p)
  \/ Delete(p)
  \/ SecretGetError(p, ErrForbidden)
  \/ ExistGetError(p, ErrForbidden)
  \/ \E e \in Faults : CreateOrPatchError(p, e)
  \/ DeleteError(p, ErrForbidden)

(***************************************************************************)
(* One Sync call at a time with no other client, every cluster API call    *)
(* still free to fail.  Every call returns and the goroutine running Sync  *)
(* is scheduled, which is the weak fairness of its steps.                  *)
(***************************************************************************)
NextFair == ProcStep("p1")

FairSpec == Init /\ [][NextFair]_vars /\ WF_vars(ProcStep("p1"))

(***************************************************************************)
(* Two Sync calls in SyncOp mode for the same configuration, run           *)
(* concurrently against one cluster, with no other client and an API that  *)
(* fails only for what the other call did.                                 *)
(***************************************************************************)
RaceConfigs == {c \in SyncConfigs : ~EngineRejected(c)}

\* The store before the two calls: empty, or holding a Service or a Deployment that
\* another client wrote earlier.
RaceStart(p) ==
  /\ pc[p] = "idle"
  /\ Begin(p, SyncOp)

InitRace ==
  /\ config \in RaceConfigs
  /\ secretExists = (config.Spec.AI.Secret # NoRef)
  /\ InitLocals
  /\ \E S \in SUBSET {"Service", "Deployment"} :
       cluster = [k \in KindSet |-> IF k \in S THEN ForeignObject(k, 1, config) ELSE Absent]

NextRace ==
  \E p \in Procs :
    \/ RaceStart(p)
    \/ SecretGet(p)
    \/ ExistGet(p)
    \/ CreateOrPatchGet(p)
    \/ Create(p)
    \/ Patch(p)

SpecRace == InitRace /\ [][NextRace]_vars

(***************************************************************************)
(* Properties.                                                             *)
(***************************************************************************)
\* The Sync call p took a step.
Moved(p) == <<pc[p], idx[p], steps[p]>>' # <<pc[p], idx[p], steps[p]>>

Desired(k) == Builder(k, config)[1]
KindIndex(k) == CHOOSE j \in 1..Len(Kinds) : Kinds[j] = k
Mutations(vs) == vs \cap {"Create", "Patch"}
TouchedKinds(ks) == ks \ {"Secret"}
HasSecretRef == config.Spec.AI.Secret.Name # ""
EngineUnsupported == config.Spec.AI.Engine # "" /\ config.Spec.AI.Backend # "azureopenai"
Active(p) == pc[p] \notin {"idle", "done"}

\* C1: in SyncOp mode with a secret reference, a Sync call that fetches the secret
\* while it does not exist returns the missing-secret error at once and leaves the
\* cluster as it is; when that happens at the first object, the call has issued no
\* Create and no Patch at all.
C1_MissingSecretStopsSync ==
  [][\A p \in Procs :
       (pc[p] = "secret" /\ ~secretExists /\ Moved(p)) =>
          /\ pc'[p] = "done"
          /\ result'[p] = "references secret does not exist, cannot create deployment"
          /\ cluster' = cluster
          /\ (idx[p] = 1 => (Mutations(verbs'[p]) = {} /\ calls'[p] = {"Secret"}))]_vars

C1_Witness ==
  \E p \in Procs :
    /\ pc[p] = "done" /\ mode[p] = SyncOp /\ HasSecretRef /\ ~secretExists
    /\ result[p] = ErrSecret /\ lastErr[p] = ErrNotFound
    /\ idx[p] = 1 /\ calls[p] = {"Secret"} /\ verbs[p] = {"Get"}

\* C2: a SyncOp call that ran with no API fault and no other client in between (a
\* second call on a synced configuration, say) returns no error and leaves the
\* Deployment and the Service with the desired spec; and no step of a SyncOp call
\* removes an existing object or changes anything of it but its spec.
OnlySpec(old, new) == new = [old EXCEPT !.Spec = new.Spec]

C2_ResyncEnd(p) ==
  (/\ pc[p] = "done" /\ mode[p] = SyncOp /\ clean[p]
   /\ ~EngineUnsupported
   /\ (HasSecretRef => secretExists)) =>
     /\ result[p] = "nil"
     /\ \A k \in {"Deployment", "Service"} :
          cluster[k] # Absent /\ cluster[k].Spec = Desired(k).Spec

C2_MergeStep(p) ==
  (mode[p] = SyncOp /\ Moved(p)) =>
     \A k \in KindSet :
       cluster[k] # Absent => (cluster'[k] # Absent /\ OnlySpec(cluster[k], cluster'[k]))

C2_ResyncKeepsAllButSpec ==
  /\ [](\A p \in Procs : C2_ResyncEnd(p))
  /\ [][\A p \in Procs : C2_MergeStep(p)]_vars

\* A call that created nothing and patched the Deployment another client had
\* changed; the ServiceAccount is the one an earlier call created.
C2_Witness ==
  \E p \in Procs :
    /\ pc[p] = "done" /\ mode[p] = SyncOp /\ clean[p] /\ result[p] = "nil"
    /\ verbs[p] = {"Get", "Patch"}
    /\ cluster["Deployment"].ObjectMeta.Labels = "foreign"
    /\ cluster["Deployment"].Status = "observed"
    /\ cluster["Deployment"].Spec = Desired("Deployment").Spec
    /\ cluster["ServiceAccount"] = Stored(Desired("ServiceAccount"))

\* C3: a DestroyOp call issues Delete for the five objects in order and nothing
\* else; a Delete that returns nil or not-found is followed by the next object (by
\* a nil return after the last); any other error is returned at once, with the
\* remaining objects not deleted.
DeleteCalls(n) == {Kinds[j] : j \in 1..n}

C3_Order(p) ==
  (mode[p] = DestroyOp /\ pc[p] # "idle" /\ ~EngineUnsupported) =>
     /\ pc[p] \in {"delete", "done"}
     /\ verbs[p] \subseteq {"Delete"}
     /\ calls[p] = IF pc[p] = "delete" THEN DeleteCalls(idx[p] - 1)
                   ELSE IF result[p] = "nil" THEN DeleteCalls(Len(Kinds))
                   ELSE DeleteCalls(idx[p])

C3_Step(p) ==
  (pc[p] = "delete" /\ Moved(p)) =>
     IF lastErr'[p] \in {"nil", "NotFound"}
     THEN /\ idx'[p] = idx[p] + 1
          /\ cluster'[Kind(p)] = Absent
          /\ IF idx[p] < Len(Kinds)
             THEN pc'[p] = "delete" /\ result'[p] = "running"
             ELSE pc'[p] = "done" /\ result'[p] = "nil"
     ELSE /\ pc'[p] = "done" /\ result'[p] = lastErr'[p] /\ idx'[p] = idx[p]
          /\ cluster' = cluster

C3_DestroyIgnoresNotFound ==
  /\ [](\A p \in Procs : C3_Order(p))
  /\ [][\A p \in Procs : C3_Step(p)]_vars

\* A DestroyOp call that returned nil after its last Delete found nothing.
C3_Witness ==
  \E p \in Procs :
    /\ pc[p] = "done" /\ mode[p] = DestroyOp /\ result[p] = "nil"
    /\ lastErr[p] = ErrNotFound /\ calls[p] = DeleteCalls(Len(Kinds))
    /\ verbs[p] = {"Delete"}

\* C4: inside RetryOnConflict the steps left stay within 1..DefaultRetrySteps; an
\* attempt of CreateOrPatch that fails with a conflict is followed by another attempt
\* while steps are left, and by doSync returning the conflict when none is; an
\* attempt that succeeds makes doSync return nil whatever came before; any other
\* error is returned with no further attempt; an error of doSync's own Get other
\* than not-found is returned before any attempt; and every doSync returns (the Sync
\* call it is part of reaches its end).
InRetry(p) == pc[p] \in {"createOrPatch", "create", "patch"}
InDoSync(p) == pc[p] = "doSync" \/ InRetry(p)

\* The step ends an attempt of CreateOrPatch (it is not CreateOrPatch's Get going on
\* to its Create or Patch).
AttemptEnds(p) ==
  /\ InRetry(p) /\ Moved(p)
  /\ ~(pc[p] = "createOrPatch" /\ pc'[p] \in {"create", "patch"} /\ idx'[p] = idx[p])

\* Sync after doSync returned e.
DoSyncReturned(p, e) ==
  IF e \in {"nil", "AlreadyExists"}
  THEN idx'[p] = idx[p] + 1 /\ result'[p] \in {"running", "nil"}
  ELSE pc'[p] = "done" /\ result'[p] = e /\ idx'[p] = idx[p]

C4_Attempt(p) ==
  AttemptEnds(p) =>
    IF lastErr'[p] = "Conflict" /\ steps[p] > 1
    THEN /\ pc'[p] = "createOrPatch" /\ steps'[p] = steps[p] - 1
         /\ idx'[p] = idx[p] /\ result'[p] = "running"
    ELSE DoSyncReturned(p, lastErr'[p])

C4_Fetch(p) ==
  (pc[p] = "doSync" /\ Moved(p)) =>
    IF lastErr'[p] \in {"nil", "NotFound"}
    THEN pc'[p] = "createOrPatch" /\ steps'[p] = DefaultRetrySteps /\ idx'[p] = idx[p]
    ELSE /\ pc'[p] = "done" /\ result'[p] = lastErr'[p]
         /\ calls'[p] = calls[p] \cup {Kind(p)}
         /\ verbs'[p] = verbs[p] \cup {"Get"}

C4_Bounded ==
  \A p \in Procs :
    /\ steps[p] \in 0..DefaultRetrySteps
    /\ InRetry(p) => steps[p] >= 1
    /\ pc[p] = "doSync" => steps[p] = 0

C4_Terminates == \A p \in Procs : InDoSync(p) ~> pc[p] = "done"

C4_RetryOnConflictOnly ==
  /\ []C4_Bounded
  /\ [][\A p \in Procs : C4_Attempt(p) /\ C4_Fetch(p)]_vars
  /\ C4_Terminates

\* A doSync that used up its attempts on conflicts: Sync returned the conflict.
C4_Witness ==
  \E p \in Procs :
    pc[p] = "done" /\ mode[p] = SyncOp /\ result[p] = ErrConflict /\ lastErr[p] = ErrConflict

\* C5: with an engine set and a backend other than azureopenai, GetDeployment
\* returns the engine error and an empty Deployment, and a Sync call, in either
\* mode, returns that error having issued no cluster API call.
C5_EngineRejectedBeforeCluster ==
  EngineUnsupported =>
    /\ GetDeployment(config)[2] = "Engine is supported only by azureopenai provider."
    /\ GetDeployment(config)[1] = EmptyDeployment
    /\ \A p \in Procs :
         pc[p] # "idle" =>
           /\ pc[p] = "done"
           /\ result[p] = "Engine is supported only by azureopenai provider."
           /\ calls[p] = {} /\ verbs[p] = {}

C5_Witness ==
  \E p \in Procs :
    EngineUnsupported /\ pc[p] = "done" /\ mode[p] = DestroyOp /\ result[p] = ErrEngine

\* C6: every builder that returns no error returns an object with exactly one owner
\* reference, whose Kind, Name, UID and APIVersion are the configuration's and whose
\* Controller and BlockOwnerDeletion are true.
C6_OwnerReference ==
  \A k \in KindSet :
    (built[k] # Unbuilt /\ built[k][2] = "nil") =>
      LET refs == built[k][1].ObjectMeta.OwnerReferences
      IN /\ Len(refs) = 1
         /\ refs[1].Kind = config.Kind
         /\ refs[1].Name = config.Name
         /\ refs[1].UID = config.UID
         /\ refs[1].APIVersion = config.APIVersion
         /\ refs[1].Controller = TRUE
         /\ refs[1].BlockOwnerDeletion = TRUE

C6_Witness ==
  /\ config.Name = "other"
  /\ \A k \in KindSet : built[k] # Unbuilt /\ built[k][2] = "nil"

\* C7 as stated: with the Azure credential set the container's environment holds
\* exactly the three Azure keys, each from the credentials secret, and no AWS key;
\* with the S3 credential set exactly the two AWS keys and no Azure key; with neither
\* set, or no remote cache, none of the five.
AzureKeys == {"AZURE_CLIENT_ID", "AZURE_TENANT_ID", "AZURE_CLIENT_SECRET"}
AwsKeys == {"AWS_ACCESS_KEY_ID", "AWS_SECRET_ACCESS_KEY"}

SecretKeyOf(name) ==
  CASE name = "AZURE_CLIENT_ID" -> "azure_client_id"
    [] name = "AZURE_TENANT_ID" -> "azure_tenant_id"
    [] name = "AZURE_CLIENT_SECRET" -> "azure_client_secret"
    [] name = "AWS_ACCESS_KEY_ID" -> "aws_access_key_id"
    [] name = "AWS_SECRET_ACCESS_KEY" -> "aws_secret_access_key"

\* Of the five keys, env holds those of K once each, from the secret cred, and no other.
HasExactly(env, K, cred) ==
  /\ \A n \in AzureKeys \cup AwsKeys :
       Cardinality({i \in DOMAIN env : env[i].Name = n}) = IF n \in K THEN 1 ELSE 0
  /\ \A i \in DOMAIN env :
       env[i].Name \in K =>
         env[i].SecretName = cred /\ env[i].Key = SecretKeyOf(env[i].Name) /\ env[i].Value = ""

DeploymentBuilt == built["Deployment"] # Unbuilt /\ built["Deployment"][2] = "nil"
BuiltEnv == built["Deployment"][1].Spec.Template.Containers[1].Env

C7_Original ==
  DeploymentBuilt =>
    LET rc == config.Spec.RemoteCache
    IN /\ (rc.Set /\ rc.Azure) => HasExactly(BuiltEnv, AzureKeys, rc.Credentials)
       /\ (rc.Set /\ rc.S3) => HasExactly(BuiltEnv, AwsKeys, rc.Credentials)
       /\ (~rc.Set \/ (~rc.Azure /\ ~rc.S3)) => HasExactly(BuiltEnv, {}, rc.Credentials)

\* C7 as amended: the AWS keys are added with the S3 credential set and the Azure
\* credential not set; with both set the Azure keys alone are added.
C7_AzureFirst ==
  DeploymentBuilt =>
    LET rc == config.Spec.RemoteCache
    IN /\ (rc.Set /\ rc.Azure) => HasExactly(BuiltEnv, AzureKeys, rc.Credentials)
       /\ (rc.Set /\ rc.S3 /\ ~rc.Azure) => HasExactly(BuiltEnv, AwsKeys, rc.Credentials)
       /\ (~rc.Set \/ (~rc.Azure /\ ~rc.S3)) => HasExactly(BuiltEnv, {}, rc.Credentials)

C7_Witness ==
  /\ DeploymentBuilt
  /\ config.Spec.RemoteCache.Set /\ config.Spec.RemoteCache.Azure /\ config.Spec.RemoteCache.S3
  /\ HasExactly(BuiltEnv, AzureKeys, "cache-creds")

\* C8: a SyncOp call goes through Service, ServiceAccount, ClusterRole,
\* ClusterRoleBinding, Deployment in that order: it has issued calls for every object
\* before the current one and for none after it.  A step in which the secret's Get
\* or doSync fails with anything but already-exists ends the call with that error
\* (the missing-secret error for the secret), the position unchanged; no step of the
\* call changes an object other than the current one, and the step that returns an
\* error changes nothing.
SyncOrder == <<"Service", "ServiceAccount", "ClusterRole", "ClusterRoleBinding", "Deployment">>

C8_Order(p) ==
  (mode[p] = SyncOp /\ pc[p] # "idle" /\ ~EngineUnsupported) =>
     /\ [j \in 1..Len(objs[p]) |-> objs[p][j].Kind] = SyncOrder
     /\ \A k \in TouchedKinds(calls[p]) : KindIndex(k) <= idx[p]
     /\ \A j \in 1..(idx[p] - 1) : SyncOrder[j] \in TouchedKinds(calls[p])

\* The step's call failed in a way doSync, or the secret's check, does not absorb.
FailedStep(p) ==
  /\ mode[p] = SyncOp /\ Active(p) /\ Moved(p)
  /\ \/ lastErr'[p] \in {"Forbidden", "Invalid"}
     \/ pc[p] = "secret" /\ lastErr'[p] # "nil"
     \/ pc[p] = "patch" /\ lastErr'[p] = "NotFound"
     \/ InRetry(p) /\ lastErr'[p] = "Conflict" /\ steps[p] = 1

C8_FailFast(p) ==
  /\ FailedStep(p) =>
       /\ pc'[p] = "done"
       /\ result'[p] = IF pc[p] = "secret"
                       THEN "references secret does not exist, cannot create deployment"
                       ELSE lastErr'[p]
       /\ idx'[p] = idx[p]
       /\ cluster' = cluster
  /\ (mode[p] = SyncOp /\ Active(p) /\ Moved(p) /\ result'[p] \notin {"running", "nil"})
       => FailedStep(p)

C8_NoRollback(p) ==
  (mode[p] = SyncOp /\ Active(p) /\ Moved(p)) =>
     \A k \in KindSet : k # SyncOrder[idx[p]] => cluster'[k] = cluster[k]

C8_OrderedFailFast ==
  /\ [](\A p \in Procs : C8_Order(p))
  /\ [][\A p \in Procs : C8_FailFast(p) /\ C8_NoRollback(p)]_vars

\* A call that failed at the third object: the two before it are there as created,
\* nothing was asked about the two after it.
C8_Witness ==
  \E p \in Procs :
    /\ pc[p] = "done" /\ mode[p] = SyncOp /\ idx[p] = 3 /\ result[p] = ErrForbidden
    /\ verbs[p] = {"Get", "Create"}
    /\ cluster["Service"] = Stored(Desired("Service"))
    /\ cluster["ServiceAccount"] = Stored(Desired("ServiceAccount"))
    /\ TouchedKinds(calls[p]) = {"Service", "ServiceAccount", "ClusterRole"}

\* C10: for a ServiceAccount, ClusterRole or ClusterRoleBinding doSync makes no Get
\* of its own and has no merge function, and no Patch is sent; when CreateOrPatch
\* finds such an object in the cluster it writes nothing and doSync returns nil;
\* when it creates one, what is stored is the desired object.
Unmerged(p) == Active(p) /\ mode[p] = SyncOp /\ Kind(p) \notin {"Deployment", "Service"}

C10_NoMergeFn(p) ==
  /\ Unmerged(p) => (pc[p] \notin {"doSync", "patch"} /\ mutateFn[p] = "nil")
  /\ mutateFn[p] = "setSpec" => Kind(p) \in {"Deployment", "Service"}

C10_Step(p) ==
  /\ (Unmerged(p) /\ pc[p] = "createOrPatch" /\ Moved(p) /\ lastErr'[p] = "nil") =>
       /\ cluster' = cluster
       /\ idx'[p] = idx[p] + 1
       /\ result'[p] \in {"running", "nil"}
       /\ Mutations(verbs'[p]) = Mutations(verbs[p])
  /\ (Unmerged(p) /\ pc[p] = "create" /\ Moved(p) /\ lastErr'[p] = "nil") =>
       /\ cluster[Kind(p)] = Absent
       /\ cluster'[Kind(p)] =
            [Desired(Kind(p)) EXCEPT !.ObjectMeta.ResourceVersion = TRUE]

C10_UnmergedKindsLeftAlone ==
  /\ [](\A p \in Procs : C10_NoMergeFn(p))
  /\ [][\A p \in Procs : C10_Step(p)]_vars

\* A call that went past a ClusterRole another client had written: the foreign rules
\* are still there and the call neither created nor patched it.
C10_Witness ==
  \E p \in Procs :
    /\ mode[p] = SyncOp /\ clean[p] /\ idx[p] > 3 /\ result[p] \in {"running", "nil"}
    /\ pc[p] # "idle"
    /\ cluster["ClusterRole"] # Absent
    /\ cluster["ClusterRole"].Body # Desired("ClusterRole").Body
    /\ "ClusterRole" \in calls[p]

\* C9: two concurrent SyncOp calls: a Create that finds the object already there
\* changes nothing and the call goes on to its next object; when both calls are
\* done both returned nil, the five objects exist, and the Deployment and the
\* Service have the desired spec.
C9_End ==
  (\A p \in Procs : pc[p] = "done") =>
     /\ \A p \in Procs : result[p] = "nil"
     /\ \A k \in KindSet : cluster[k] # Absent
     /\ \A k \in {"Deployment", "Service"} : cluster[k].Spec = Desired(k).Spec

C9_AlreadyExists(p) ==
  (pc[p] = "create" /\ Moved(p) /\ lastErr'[p] = "AlreadyExists") =>
     /\ cluster' = cluster
     /\ idx'[p] = idx[p] + 1
     /\ result'[p] \in {"running", "nil"}

C9_ConcurrentSyncs ==
  /\ []C9_End
  /\ [][\A p \in Procs : C9_AlreadyExists(p)]_vars

\* Both calls are done, both sent a Create, and the last Create of one of them found
\* the Deployment the other had just created.
C9_Witness ==
  /\ \A p \in Procs : pc[p] = "done" /\ result[p] = "nil"
  /\ \A p \in Procs : "Create" \in verbs[p] /\ calls[p] = KindSet \cup {"Secret"}
  /\ \E p \in Procs : lastErr[p] = ErrAlreadyExists

====
